---- MODULE Spec2Model ----
(***************************************************************************)
(* SchedulerAgent of kkuang0/task_agent (src/src/agents/scheduler_agent.py) *)
(*                                                                         *)
(* Wall-clock instants are integers counted in clock ticks; a minute is    *)
(* TicksPerMinute ticks.  Offsets handed to the CP-SAT model are whole      *)
(* minutes, obtained from instants by int(seconds / 60), which truncates    *)
(* toward zero.  datetime.now() is read anew at every place the source      *)
(* reads it, and the clock may have advanced between two reads.             *)
(***************************************************************************)
EXTENDS Integers, Sequences, FiniteSets, TLC

\* ------------------------------------------------------------------ bounds
\* scheduling horizon in minutes (180 * 24 * 60 in the source)
max_time == 3
\* resolution of the clock: ticks per minute
TicksPerMinute == 2
\* latest instant the clock reaches while a call is running
MaxClock == 2
\* largest estimated_duration_minutes of an estimate
MaxEstimate == 2

\* update_schedule calls made on one schedule
MaxCalls == 2
\* largest actual_duration passed to update_schedule
MaxActual == 3

\* largest number in an 'in N months' phrase
MaxMonths == 13
\* largest number in an 'in N days' or 'in N weeks' phrase
MaxDays == 2
\* constraint strings handed to extract_global_constraints
MaxConstraints == 3

\* ---------------------------------------------------------- program constants
\* duration of a task without a matching estimate
DefaultDuration == 60
\* hours of buffer under which a deadline is tight
TightBufferHours == 24

\* ------------------------------------------------------------ Python values
\* an identifier as a caller passes it: the int 1 and the str "1" are
\* different values with the same str()
PyStr(text) == [int |-> FALSE, s |-> text]
PyInt(text) == [int |-> TRUE, s |-> text]
\* a key the dict does not carry
NoKey == [int |-> FALSE, s |-> "<absent>"]

\* str(x): the text of x as a Python str
str(v) == PyStr(v.s)

\* int(x / 60) on a difference of instants: truncation toward zero
Minutes(ticks) ==
    IF ticks >= 0 THEN ticks \div TicksPerMinute
    ELSE -((-ticks) \div TicksPerMinute)

\* timedelta(minutes = m)
timedelta(m) == m * TicksPerMinute

Min(S) == CHOOSE x \in S : \A y \in S : x <= y

\* dict[key] = value
Put(f, k, v) == [x \in (DOMAIN f) \cup {k} |-> IF x = k THEN v ELSE f[x]]

EmptyDict == [x \in {} |-> 0]

\* Optional[datetime]: <<>> is None, <<d>> is the instant d
None == <<>>
Some(d) == <<d>>

\* datetime.isoformat(): the text of an instant;
\* datetime.fromisoformat() raises on a text that is none
isoformat(t) == [valid |-> TRUE, t |-> t]
BadIso == [valid |-> FALSE, t |-> 0]
Parses(text) == text.valid
fromisoformat(text) == text.t

\* ------------------------------------------------------------------ inputs
Task(idv, IDv, deps) == [id |-> idv, ID |-> IDv, dependencies |-> deps]

\* dependency lists of a task: none, the first task, the second task, or an
\* identifier that is no task of the batch
DepLists == {<<>>, <<PyInt("1")>>, <<PyStr("2")>>, <<PyStr("7")>>}

\* the first task carries its identifier under 'id', under 'ID', or under both
FirstTasks ==
    {Task(PyStr("1"), NoKey, d) : d \in DepLists}
    \cup {Task(NoKey, PyInt("1"), d) : d \in DepLists}
    \cup {Task(PyStr("1"), PyStr("9"), d) : d \in DepLists}

SecondTasks == {Task(PyInt("2"), NoKey, d) : d \in DepLists}

TaskBatches == {<<a, b>> : a \in FirstTasks, b \in SecondTasks}

Estimate(tid, m) == [task_id |-> tid, estimated_duration_minutes |-> m]

EstimateSet ==
    {Estimate(tid, m) : tid \in {PyInt("1"), PyStr("2"), PyStr("9")},
                        m \in 0..MaxEstimate}

\* one estimate per task, in task order
BasicEstimates ==
    {<<Estimate(PyInt("1"), m1), Estimate(PyStr("2"), m2)>> :
        m1 \in 0..MaxEstimate, m2 \in 0..MaxEstimate}

\* any list of at most two estimates
EstimateLists ==
    {<<>>} \cup {<<e>> : e \in EstimateSet}
    \cup {<<e1, e2>> : e1 \in EstimateSet, e2 \in EstimateSet}

\* deadlines the parser extracts, as instants: already passed, a minute and
\* a half ahead, two minutes ahead, beyond the horizon
DeadlineSet ==
    {0, TicksPerMinute + 1, 2 * TicksPerMinute, (max_time + 1) * TicksPerMinute}

\* extract_task_constraints: at most one task of the batch has a deadline
TaskDeadlineMaps ==
    {EmptyDict} \cup {(k :> d) : k \in {PyStr("1"), PyStr("2")}, d \in DeadlineSet}

\* busy intervals of the calendar, as (start, end) instants
BusySet ==
    {<<TicksPerMinute, 2 * TicksPerMinute>>,
     <<TicksPerMinute, 2 * TicksPerMinute + 1>>}

BusyLists == {<<>>} \cup {<<u>> : u \in BusySet}

\* two busy intervals: one ending where the other starts, and two that
\* overlap, the later one first in the list
BusyPairs ==
    {<<<<TicksPerMinute, 2 * TicksPerMinute>>,
       <<2 * TicksPerMinute, 3 * TicksPerMinute>>>>,
     <<<<2 * TicksPerMinute, 3 * TicksPerMinute + 1>>,
       <<TicksPerMinute, 2 * TicksPerMinute + 1>>>>}

\* an event of the calendar; an all-day event has no 'dateTime' to parse
Event(u) == [start |-> isoformat(u[1]), end |-> isoformat(u[2])]
AllDayEvent == [start |-> BadIso, end |-> BadIso]

\* the calendar as a call finds it: the service self.calendar_service holds
\* (line 28) or None, whether events().list() answers, and the items it gives
Calendar(service, answers, items) ==
    [calendar_service |-> service, answers |-> answers, items |-> items]

NoCalendar == Calendar(FALSE, FALSE, <<>>)

\* calendars whose every event parses
GoodCalendars == {Calendar(TRUE, TRUE, [i \in DOMAIN b |-> Event(b[i])]) : b \in BusyLists}

\* no service, no answer, an event that does not parse alone, after or
\* before one that does
FailingCalendars ==
    {NoCalendar, Calendar(TRUE, FALSE, <<>>), Calendar(TRUE, TRUE, <<AllDayEvent>>)}
    \cup {Calendar(TRUE, TRUE, <<Event(u), AllDayEvent>>) : u \in BusySet}
    \cup {Calendar(TRUE, TRUE, <<AllDayEvent, Event(u)>>) : u \in BusySet}

\* calendars with two events
PairCalendars == {Calendar(TRUE, TRUE, [i \in DOMAIN b |-> Event(b[i])]) : b \in BusyPairs}

Calendars == GoodCalendars \cup FailingCalendars \cup PairCalendars

ProjectDeadlines == {None, Some(0), Some(2 * TicksPerMinute + 1)}

\* ------------------------------------------------------------------- state
VARIABLES
    pc,                   \* where the running call stands
    clock,                \* the wall clock, as of its latest read
    tasks,                \* argument of _create_schedule, ids normalised
    estimates,            \* argument of _create_schedule, ids normalised
    task_deadlines,       \* time_parser.extract_task_constraints(tasks)
    global_constraints,   \* time_parser.extract_global_constraints(constraints)
    calendar,             \* the calendar service and what it answers
    unavailable_times,    \* _get_unavailable_times(...)
    idx,                  \* position of the running for loop
    task_durations,       \* dict task_id -> minutes; its keys are those of task_vars
    model,                \* the constraints added to the CpModel
    status,               \* solver.Solve(model)
    solution,             \* solver.Value(task_vars[...])
    scheduled_tasks,      \* the list being returned
    current_time,         \* cursor of the fallback
    task_ids_to_schedule, \* fallback: identifiers still to place
    scheduled_task_ids,   \* fallback: identifiers placed
    forced,               \* identifiers placed by the circular-dependency branch
    twin,                 \* fallback state of a second run on the same arguments and clock
    current_schedule,     \* update_schedule: the caller's list of entry dicts
    returned,             \* update_schedule: the list it returned
    before,               \* the caller's list as it was when the call started
    args,                 \* the arguments of the latest update_schedule call
    calls,                \* number of update_schedule calls made
    worker,               \* locals of two update_schedule calls that run unserialized
    overlapped,           \* one of the two calls started while the other was running
    history,              \* the update_schedule calls made: the list before, the arguments
    parser_now,           \* time_parser: datetime.now() of the running extraction
    parser_text,          \* time_parser: the argument of the latest extract_deadline
    parser_deadline,      \* time_parser: what the latest extract_deadline returned
    parser_constraints,   \* time_parser: the argument of extract_global_constraints
    parser_global         \* time_parser: what extract_global_constraints returned

vars == <<pc, clock, tasks, estimates, task_deadlines, global_constraints,
          calendar, unavailable_times, idx, task_durations, model, status, solution,
          scheduled_tasks, current_time, task_ids_to_schedule,
          scheduled_task_ids, forced, twin, current_schedule, returned,
          before, args, calls, worker, overlapped, history, parser_now,
          parser_text, parser_deadline, parser_constraints, parser_global>>

createVars == <<pc, clock, tasks, estimates, task_deadlines, global_constraints,
                calendar, unavailable_times, idx, task_durations, model, status, solution,
                scheduled_tasks, current_time, task_ids_to_schedule,
                scheduled_task_ids, forced, twin>>

raceVars == <<worker, overlapped>>

updateVars == <<current_schedule, returned, before, args, calls, raceVars,
                history>>

parserVars == <<parser_now, parser_text, parser_deadline, parser_constraints,
                parser_global>>

\* the two calls
Workers == {1, 2}

\* the locals of a call that has not started
IdleWorker ==
    [pc |-> "idle", completed_task_id |-> NoKey, actual_duration |-> 0,
     completed_index |-> 0, end_read |-> 0, time_diff |-> 0, i |-> 0,
     current_start |-> 0, current_end |-> 0]

inputVars == <<tasks, estimates, task_deadlines, global_constraints,
               calendar, unavailable_times>>

fallbackVars == <<current_time, task_ids_to_schedule, scheduled_task_ids, forced,
                  twin>>

\* the locals of the fallback (lines 205-208) of a run that has not reached it
NoTwin == [current_time |-> 0, scheduled_tasks |-> <<>>,
           task_ids_to_schedule |-> {}, scheduled_task_ids |-> {}]

NoArgs == [completed_task_id |-> NoKey, actual_duration |-> 0]

EmptyModel == [deadline |-> EmptyDict, deps |-> {}, busy |-> <<>>, project |-> None]

\* the time parser before any extraction
NoDatetime == [year |-> 1, month |-> 1, day |-> 1, hour |-> 0, minute |-> 0, second |-> 0]

\* a text is what the parser tells of it: whether it is empty, the patterns
\* of self.patterns that re.search finds in it, the number of the
\* '(\d+)' group, what dateparser.parse gives for the date found in it and
\* for the whole of it, and what the work-hours and weekend patterns find
NoText == [empty |-> TRUE, matches |-> {}, n |-> 0, specific |-> None,
           parsed |-> None, work_hours |-> None, weekends |-> {}]

\* lines 180-184
DefaultGlobalConstraints ==
    [project_deadline |-> None, work_hours |-> [start |-> 9, end |-> 17],
     weekends_off |-> TRUE]

ParserIdle ==
    /\ parser_now = NoDatetime
    /\ parser_text = NoText
    /\ parser_deadline = None
    /\ parser_constraints = <<>>
    /\ parser_global = DefaultGlobalConstraints

Init ==
    /\ pc = "idle"
    /\ clock = 0
    /\ tasks = <<>>
    /\ estimates = <<>>
    /\ task_deadlines = EmptyDict
    /\ global_constraints = [project_deadline |-> None]
    /\ calendar = NoCalendar
    /\ unavailable_times = <<>>
    /\ idx = 0
    /\ task_durations = EmptyDict
    /\ model = EmptyModel
    /\ status = "NONE"
    /\ solution = EmptyDict
    /\ scheduled_tasks = <<>>
    /\ current_time = 0
    /\ task_ids_to_schedule = {}
    /\ scheduled_task_ids = {}
    /\ forced = {}
    /\ twin = NoTwin
    /\ current_schedule = <<>>
    /\ returned = <<>>
    /\ before = <<>>
    /\ args = NoArgs
    /\ calls = 0
    /\ worker = [w \in Workers |-> IdleWorker]
    /\ overlapped = FALSE
    /\ history = <<>>
    /\ ParserIdle

\* ------------------------------------------------- _create_schedule: helpers
\* lines 76-80: task['id'] = str(task['id']), else str(task['ID'])
NormalizeTask(task) ==
    IF task.id # NoKey THEN [task EXCEPT !.id = str(task.id)]
    ELSE IF task.ID # NoKey THEN [task EXCEPT !.id = str(task.ID)]
    ELSE task

\* lines 82-84
NormalizeEstimate(estimate) ==
    IF estimate.task_id # NoKey
    THEN [estimate EXCEPT !.task_id = str(estimate.task_id)]
    ELSE estimate

\* MatchingEstimate with the last matching estimate instead of the first
MatchingEstimateLast(est, key) ==
    LET hits == {i \in 1..Len(est) : str(est[i].task_id) = key}
    IN IF hits = {} THEN 0 ELSE CHOOSE i \in hits : \A j \in hits : i >= j

\* next((e for e in estimates if str(e.get('task_id')) == key), None),
\* as the position of the estimate, 0 for None
MatchingEstimate(est, key) ==
    LET hits == {i \in 1..Len(est) : str(est[i].task_id) = key}
    IN IF hits = {} THEN 0 ELSE Min(hits)

\* lines 110-122: the duration of a task
ResolveDuration(task, est) ==
    LET task_id == str(task.id)
        m1 == MatchingEstimate(est, task_id)
        alt_id == str(IF task.ID # NoKey THEN task.ID ELSE task.id)
        m2 == MatchingEstimate(est, alt_id)
    IN IF m1 # 0 THEN est[m1].estimated_duration_minutes
       ELSE IF m2 # 0 THEN est[m2].estimated_duration_minutes
       ELSE DefaultDuration

\* [str(dep) for dep in task.get('dependencies', [])]
Dependencies(task) ==
    {str(task.dependencies[i]) : i \in 1..Len(task.dependencies)}

\* calendar.py lines 136-159: the items, or [] without a service or an answer
get_calendar_events(cal) ==
    IF ~cal.calendar_service THEN <<>>
    ELSE IF ~cal.answers THEN <<>>
    ELSE cal.items

\* get_unavailable_times with an event that does not parse left out
get_unavailable_times_skipping(cal) ==
    LET events == get_calendar_events(cal)
        F[i \in 0..Len(events)] ==
            IF i = 0 THEN <<>>
            ELSE IF Parses(events[i].start) /\ Parses(events[i].end)
            THEN Append(F[i - 1], <<fromisoformat(events[i].start),
                                    fromisoformat(events[i].end)>>)
            ELSE F[i - 1]
    IN IF ~cal.calendar_service THEN <<>> ELSE F[Len(events)]

\* lines 30-45: the (start, end) pairs of the events, or [] without a
\* service and when anything in the try block raises
get_unavailable_times(cal) ==
    LET events == get_calendar_events(cal)
    IN IF ~cal.calendar_service THEN <<>>
       ELSE IF \E i \in 1..Len(events) :
                  ~Parses(events[i].start) \/ ~Parses(events[i].end)
       THEN <<>>
       ELSE [i \in 1..Len(events) |->
                <<fromisoformat(events[i].start), fromisoformat(events[i].end)>>]

\* NotPassed with the offset 0 taken for a deadline still ahead
NotPassedOrNow(minutes) == minutes >= 0

\* lines 134 and 163: a deadline constrains the model if its offset is positive
NotPassed(minutes) == minutes > 0

\* datetime.now(): the clock is read, and may have advanced since its last read
Now(now) ==
    /\ now \in clock..MaxClock
    /\ clock' = now

\* the assignments of start offsets that satisfy every constraint added to
\* the model (lines 125-172)
EndOf(a, t) == a[t] + task_durations[t]

\* InHorizon without the upper bound of the variable
InHorizonUnbounded(x) == x >= 0

\* lines 125-126: NewIntVar(0, max_time, ...)
InHorizon(x) == x \in 0..max_time

Satisfies(a, m) ==
    /\ \A t \in DOMAIN a : InHorizon(a[t]) /\ InHorizon(EndOf(a, t))
    /\ \A t \in DOMAIN m.deadline :
          /\ m.deadline[t] \in 0..max_time
          /\ EndOf(a, t) <= m.deadline[t]
    /\ \A e \in m.deps : a[e[1]] >= EndOf(a, e[2])
    /\ \A i \in 1..Len(m.busy) : \A t \in DOMAIN a :
          \/ EndOf(a, t) <= m.busy[i][1]
          \/ a[t] >= m.busy[i][2]
    /\ m.project # None =>
          /\ m.project[1] \in 0..max_time
          /\ \A t \in DOMAIN a : EndOf(a, t) <= m.project[1]

Solutions(m) ==
    {a \in [DOMAIN task_durations -> 0..max_time] : Satisfies(a, m)}

\* Makespan with the makespan variable bounded below by one end only
MakespanOfOne(a) ==
    LET ends == {EndOf(a, t) : t \in DOMAIN a} \cup {max_time}
    IN CHOOSE x \in ends : \A y \in ends : x <= y

\* the least value the makespan variable can take under a (lines 170-172)
Makespan(a) ==
    LET ends == {EndOf(a, t) : t \in DOMAIN a} \cup {0}
    IN CHOOSE x \in ends : \A y \in ends : x >= y

OptimalSolutions(m) ==
    {a \in Solutions(m) : \A b \in Solutions(m) : Makespan(a) <= Makespan(b)}

\* ScheduledTask(**task_params)
ScheduledTask(task_id, start_time, end_time) ==
    [task_id |-> task_id, start_time |-> start_time, end_time |-> end_time,
     assigned_to |-> "default",
     deadline |-> IF task_id \in DOMAIN task_deadlines
                  THEN Some(task_deadlines[task_id]) ELSE None]

\* lines 223-226: a cursor inside a busy interval jumps to the end of the
\* first such interval of the list
SkipUnavailable(cur) ==
    LET hits == {i \in 1..Len(unavailable_times) :
                    /\ unavailable_times[i][1] <= cur
                    /\ cur < unavailable_times[i][2]}
    IN IF hits = {} THEN cur ELSE unavailable_times[Min(hits)][2]

\* ReadyTasks without the test of the dependencies
ReadyTasksAny ==
    {i \in 1..Len(tasks) : str(tasks[i].id) \in task_ids_to_schedule}

\* the tasks the fallback's for loop finds ready, as positions of the list
ReadyTasks ==
    {i \in 1..Len(tasks) :
        /\ str(tasks[i].id) \in task_ids_to_schedule
        /\ Dependencies(tasks[i]) \ scheduled_task_ids = {}}

\* ForcedCandidates with the ready tasks only: none in that branch
ForcedCandidatesReady == {str(tasks[i].id) : i \in ReadyTasks}

\* line 250: the identifiers next(iter(task_ids_to_schedule)) can yield
ForcedCandidates == task_ids_to_schedule

\* task_durations.get(task_id, 60)
DurationOrDefault(task_id) ==
    IF task_id \in DOMAIN task_durations THEN task_durations[task_id]
    ELSE DefaultDuration

\* ------------------------------------------------- _create_schedule: actions
\* lines 72-106: the call, with its arguments and what the parser and the
\* calendar return for them
create_schedule(ts, es, dl, pd, cal) ==
    /\ pc = "idle"
    /\ tasks' = [i \in DOMAIN ts |-> NormalizeTask(ts[i])]
    /\ estimates' = [i \in DOMAIN es |-> NormalizeEstimate(es[i])]
    /\ task_deadlines' = dl
    /\ global_constraints' = [project_deadline |-> pd]
    /\ calendar' = cal
    /\ unavailable_times' = get_unavailable_times(cal)
    /\ task_durations' = EmptyDict
    /\ model' = EmptyModel
    /\ idx' = 1
    /\ pc' = "step1"
    /\ UNCHANGED <<clock, status, solution, scheduled_tasks, fallbackVars, updateVars, parserVars>>

Call ==
    /\ pc = "idle"
    /\ \E ts \in TaskBatches, es \in EstimateLists, dl \in TaskDeadlineMaps,
          pd \in ProjectDeadlines, cal \in Calendars :
        \* the batches are of four kinds: the constraints vary, or the
        \* estimates, or the dependencies and durations, or the calendar fails
        /\ \/ /\ es \in BasicEstimates
              /\ es[1].estimated_duration_minutes = es[2].estimated_duration_minutes
              /\ ts[1].ID = NoKey
              /\ \/ pd = None
                 \/ dl = EmptyDict
                 \/ pd = Some(0) /\ \A t \in DOMAIN dl : dl[t] = 0
              /\ cal \in GoodCalendars
           \/ /\ dl = EmptyDict /\ pd = None
              /\ cal = Calendar(TRUE, TRUE, <<>>)
              /\ \A i \in DOMAIN ts : ts[i].dependencies = <<>>
           \/ /\ es \in BasicEstimates
              /\ ts[1].ID = NoKey
              /\ dl = EmptyDict /\ pd = None
              /\ cal \in {Calendar(TRUE, TRUE, <<>>)} \cup PairCalendars
           \/ /\ es \in BasicEstimates
              /\ es[1].estimated_duration_minutes = es[2].estimated_duration_minutes
              /\ ts[1].ID = NoKey
              /\ \A i \in DOMAIN ts : ts[i].dependencies = <<>>
              /\ dl = EmptyDict /\ pd = None
              /\ cal \in FailingCalendars
        /\ create_schedule(ts, es, dl, pd, cal)

\* lines 109-137: one round of the loop of step 1
Step1 ==
    /\ pc = "step1"
    /\ LET task == tasks[idx]
           task_id == str(task.id)
           duration == ResolveDuration(task, estimates)
       IN /\ task_durations' = Put(task_durations, task_id, duration)
          /\ IF task_id \in DOMAIN task_deadlines
             THEN \E now \in clock..MaxClock :
                    /\ Now(now)
                    /\ LET deadline_minutes == Minutes(task_deadlines[task_id] - now)
                       IN model' = IF NotPassed(deadline_minutes)
                                   THEN [model EXCEPT !.deadline =
                                            Put(@, task_id, deadline_minutes)]
                                   ELSE model
             ELSE UNCHANGED <<clock, model>>
    /\ idx' = IF idx < Len(tasks) THEN idx + 1 ELSE 1
    /\ pc' = IF idx < Len(tasks) THEN "step1" ELSE "step2"
    /\ UNCHANGED <<inputVars, status, solution, scheduled_tasks, fallbackVars, updateVars, parserVars>>

\* lines 139-146: dependency constraints
Step2 ==
    /\ pc = "step2"
    /\ model' = [model EXCEPT !.deps =
                    {e \in (DOMAIN task_durations) \X (DOMAIN task_durations) :
                        \E i \in 1..Len(tasks) :
                            /\ e[1] = str(tasks[i].id)
                            /\ e[2] \in Dependencies(tasks[i])}]
    /\ idx' = 1
    /\ pc' = IF Len(unavailable_times) > 0 THEN "step3" ELSE "step4"
    /\ UNCHANGED <<inputVars, clock, task_durations, status, solution,
                   scheduled_tasks, fallbackVars, updateVars, parserVars>>

\* lines 148-158: one round of the loop over the busy intervals
Step3 ==
    /\ pc = "step3"
    /\ \E now1 \in clock..MaxClock, now2 \in clock..MaxClock :
          /\ now1 <= now2
          /\ Now(now2)
          /\ LET unavailable == unavailable_times[idx]
                 unavailable_start == Minutes(unavailable[1] - now1)
                 unavailable_end == Minutes(unavailable[2] - now2)
             IN model' = [model EXCEPT !.busy =
                            Append(@, <<unavailable_start, unavailable_end>>)]
    /\ idx' = IF idx < Len(unavailable_times) THEN idx + 1 ELSE 1
    /\ pc' = IF idx < Len(unavailable_times) THEN "step3" ELSE "step4"
    /\ UNCHANGED <<inputVars, task_durations, status, solution,
                   scheduled_tasks, fallbackVars, updateVars, parserVars>>

\* lines 160-167: project deadline
Step4 ==
    /\ pc = "step4"
    /\ IF global_constraints.project_deadline # None
       THEN \E now \in clock..MaxClock :
              /\ Now(now)
              /\ LET project_deadline_minutes ==
                        Minutes(global_constraints.project_deadline[1] - now)
                 IN model' = IF NotPassed(project_deadline_minutes)
                             THEN [model EXCEPT !.project =
                                      Some(project_deadline_minutes)]
                             ELSE model
       ELSE UNCHANGED <<clock, model>>
    /\ pc' = "solve"
    /\ UNCHANGED <<inputVars, idx, task_durations, status, solution,
                   scheduled_tasks, fallbackVars, updateVars, parserVars>>

\* lines 169-179: the solver ends with an optimal assignment, with some
\* assignment, by proving there is none, or by running out of its budget
Solve ==
    /\ pc = "solve"
    /\ \/ \E a \in OptimalSolutions(model) :
            /\ status' = "OPTIMAL"
            /\ solution' = a
       \/ \E a \in Solutions(model) :
            /\ status' = "FEASIBLE"
            /\ solution' = a
       \/ /\ Solutions(model) = {}
          /\ status' = "INFEASIBLE"
          /\ solution' = EmptyDict
       \/ /\ status' = "UNKNOWN"
          /\ solution' = EmptyDict
    /\ pc' = IF status' \in {"OPTIMAL", "FEASIBLE"} THEN "map" ELSE "fallback"
    /\ idx' = 1
    /\ UNCHANGED <<inputVars, clock, task_durations, model, scheduled_tasks,
                   fallbackVars, updateVars, parserVars>>

\* lines 181-201: one round of the loop that maps the solution
MapResult ==
    /\ pc = "map"
    /\ \E now \in clock..MaxClock :
          /\ Now(now)
          /\ LET task_id == str(tasks[idx].id)
                 start_time == now + timedelta(solution[task_id])
                 end_time == start_time + timedelta(task_durations[task_id])
             IN scheduled_tasks' =
                    Append(scheduled_tasks,
                           ScheduledTask(task_id, start_time, end_time))
    /\ idx' = IF idx < Len(tasks) THEN idx + 1 ELSE 1
    /\ pc' = IF idx < Len(tasks) THEN "map" ELSE "done"
    /\ UNCHANGED <<inputVars, task_durations, model, status, solution,
                   fallbackVars, updateVars, parserVars>>

\* lines 202-208: the fallback starts
FallbackStart ==
    /\ pc = "fallback"
    /\ \E now \in clock..MaxClock :
          /\ Now(now)
          /\ current_time' = now
    /\ scheduled_tasks' = <<>>
    /\ task_ids_to_schedule' = {tasks[i].id : i \in 1..Len(tasks)}
    /\ scheduled_task_ids' = {}
    /\ forced' = {}
    /\ twin' = [current_time |-> current_time', scheduled_tasks |-> <<>>,
                task_ids_to_schedule |-> task_ids_to_schedule',
                scheduled_task_ids |-> {}]
    /\ pc' = IF Len(tasks) = 0 THEN "done" ELSE "while"
    /\ UNCHANGED <<inputVars, idx, task_durations, model, status, solution,
                   updateVars, parserVars>>

\* Place without the append to scheduled_tasks
PlaceDropped(task_id) ==
    LET duration == DurationOrDefault(task_id)
        start_time == SkipUnavailable(current_time)
        end_time == start_time + timedelta(duration)
    IN /\ scheduled_tasks' = scheduled_tasks
       /\ scheduled_task_ids' = scheduled_task_ids \cup {task_id}
       /\ task_ids_to_schedule' = task_ids_to_schedule \ {task_id}
       /\ current_time' = end_time
       /\ pc' = IF task_ids_to_schedule' = {} THEN "done" ELSE "while"

\* lines 222-246 and 253-276: a task is placed at the cursor
Place(task_id) ==
    LET duration == DurationOrDefault(task_id)
        start_time == SkipUnavailable(current_time)
        end_time == start_time + timedelta(duration)
    IN /\ scheduled_tasks' =
              Append(scheduled_tasks, ScheduledTask(task_id, start_time, end_time))
       /\ scheduled_task_ids' = scheduled_task_ids \cup {task_id}
       /\ task_ids_to_schedule' = task_ids_to_schedule \ {task_id}
       /\ current_time' = end_time
       /\ pc' = IF task_ids_to_schedule' = {} THEN "done" ELSE "while"

\* the tasks the for loop of the second run finds ready
TwinReadyTasks ==
    {i \in 1..Len(tasks) :
        /\ str(tasks[i].id) \in twin.task_ids_to_schedule
        /\ Dependencies(tasks[i]) \ twin.scheduled_task_ids = {}}

\* lines 222-246 and 253-276 in the second run
TwinPlace(task_id) ==
    LET duration == DurationOrDefault(task_id)
        start_time == SkipUnavailable(twin.current_time)
        end_time == start_time + timedelta(duration)
    IN twin' = [current_time |-> end_time,
                scheduled_tasks |->
                    Append(twin.scheduled_tasks,
                           ScheduledTask(task_id, start_time, end_time)),
                task_ids_to_schedule |-> twin.task_ids_to_schedule \ {task_id},
                scheduled_task_ids |-> twin.scheduled_task_ids \cup {task_id}]

\* lines 210-276: the second run makes its round of the while loop, with
\* its own next(iter(...)) where it finds no task ready
TwinRound ==
    IF twin.task_ids_to_schedule = {} THEN UNCHANGED twin
    ELSE IF TwinReadyTasks # {}
    THEN TwinPlace(str(tasks[Min(TwinReadyTasks)].id))
    ELSE \E task_id \in twin.task_ids_to_schedule : TwinPlace(task_id)

\* lines 210-246: a round of the while loop that finds a ready task
FallbackReady ==
    /\ pc = "while"
    /\ ReadyTasks # {}
    /\ Place(str(tasks[Min(ReadyTasks)].id))
    /\ TwinRound
    /\ UNCHANGED <<inputVars, clock, idx, task_durations, model, status,
                   solution, forced, updateVars, parserVars>>

\* lines 247-276: a round of the while loop that finds none: some identifier
\* of the set is placed (next(iter(...)) of a set of strings)
FallbackForced ==
    /\ pc = "while"
    /\ ReadyTasks = {}
    /\ \E task_id \in ForcedCandidates :
          /\ Place(task_id)
          /\ forced' = forced \cup {task_id}
    /\ TwinRound
    /\ UNCHANGED <<inputVars, clock, idx, task_durations, model, status,
                   solution, updateVars, parserVars>>

Next ==
    \/ Call
    \/ Step1
    \/ Step2
    \/ Step3
    \/ Step4
    \/ Solve
    \/ MapResult
    \/ FallbackStart
    \/ FallbackReady
    \/ FallbackForced

Spec == Init /\ [][Next]_vars

\* ------------------------------------------------------------ update_schedule
Tight == "Tight deadline"
OnTrack == "On track"

\* process(), lines 372-386: a ScheduledTask as the dict handed to callers;
\* Status "" stands for a dict without that key
TaskDict(st) ==
    [task_id |-> st.task_id,
     start_time |-> isoformat(st.start_time),
     end_time |-> isoformat(st.end_time),
     assigned_to |-> st.assigned_to,
     deadline |-> IF st.deadline # None THEN Some(isoformat(st.deadline[1]))
                  ELSE None,
     Status |-> ""]

\* IdMatches with the comparison inverted
IdDiffers(task, completed_task_id) ==
    str(task.task_id) # str(completed_task_id)

\* line 297
IdMatches(task, completed_task_id) ==
    str(task.task_id) = str(completed_task_id)

\* lines 294-300: completed_index + 1, or 0 when no entry matches
FindCompleted(schedule, completed_task_id) ==
    LET hits == {i \in 1..Len(schedule) : IdMatches(schedule[i], completed_task_id)}
    IN IF hits = {} THEN 0 ELSE Min(hits)

\* ScheduledDuration measured from the earliest instant, not from the start
ScheduledDurationOfEnd(task) == Minutes(fromisoformat(task.end_time))

\* lines 307-308
ScheduledDuration(task) ==
    Minutes(fromisoformat(task.end_time) - fromisoformat(task.start_time))

\* NoChangeNeeded without the early return
NoChangeNever(time_diff) == FALSE

\* line 311
NoChangeNeeded(time_diff) == time_diff = 0

\* DeadlineStatus with a buffer of exactly TightBufferHours counted as tight
DeadlineStatusInclusive(new_end, deadline) ==
    IF new_end > deadline THEN Tight
    ELSE IF deadline - new_end <= timedelta(TightBufferHours * 60) THEN Tight
    ELSE OnTrack

\* lines 331-340: the Status of an entry with a deadline
DeadlineStatus(new_end, deadline) ==
    IF new_end > deadline THEN Tight
    ELSE IF deadline - new_end < timedelta(TightBufferHours * 60) THEN Tight
    ELSE OnTrack

\* ShiftTask with only the end moved
ShiftTaskEndOnly(task, time_diff) ==
    IF ~Parses(task.start_time) \/ ~Parses(task.end_time)
    THEN [task |-> task, ok |-> FALSE]
    ELSE LET new_end == fromisoformat(task.end_time) + timedelta(time_diff)
             moved == [task EXCEPT !.end_time = isoformat(new_end)]
         IN IF task.deadline = None THEN [task |-> moved, ok |-> TRUE]
            ELSE IF ~Parses(task.deadline[1]) THEN [task |-> moved, ok |-> FALSE]
            ELSE [task |-> [moved EXCEPT !.Status =
                              DeadlineStatus(new_end, fromisoformat(task.deadline[1]))],
                  ok |-> TRUE]

\* lines 318-340: one round of the loop; ok is FALSE when the round raised,
\* and task is the dict as the round left it
ShiftTask(task, time_diff) ==
    IF ~Parses(task.start_time) \/ ~Parses(task.end_time)
    THEN [task |-> task, ok |-> FALSE]
    ELSE LET new_start == fromisoformat(task.start_time) + timedelta(time_diff)
             new_end == fromisoformat(task.end_time) + timedelta(time_diff)
             moved == [task EXCEPT !.start_time = isoformat(new_start),
                                   !.end_time = isoformat(new_end)]
         IN IF task.deadline = None THEN [task |-> moved, ok |-> TRUE]
            ELSE IF ~Parses(task.deadline[1]) THEN [task |-> moved, ok |-> FALSE]
            ELSE [task |-> [moved EXCEPT !.Status =
                              DeadlineStatus(new_end, fromisoformat(task.deadline[1]))],
                  ok |-> TRUE]

\* lines 317-340: the loop from position i on; the dicts are those of the
\* caller's list (list.copy() is shallow), so every write is a write to them
RECURSIVE ShiftLoop(_, _, _)
ShiftLoop(schedule, i, time_diff) ==
    IF i > Len(schedule) THEN schedule
    ELSE LET r == ShiftTask(schedule[i], time_diff)
         IN IF r.ok
            THEN ShiftLoop([schedule EXCEPT ![i] = r.task], i + 1, time_diff)
            ELSE [schedule EXCEPT ![i] = r.task]

\* FirstShifted with the loop starting at the completed entry
FirstShiftedInclusive(completed) == completed

\* first position the loop visits
FirstShifted(completed) == completed + 1

\* lines 292-346: the entries of the caller's list when the call returns
UpdateResult(schedule, completed_task_id, actual_duration) ==
    LET completed == FindCompleted(schedule, completed_task_id)
    IN IF completed = 0 THEN schedule
       ELSE IF ~Parses(schedule[completed].end_time)
               \/ ~Parses(schedule[completed].start_time) THEN schedule
       ELSE LET time_diff == actual_duration - ScheduledDuration(schedule[completed])
            IN IF NoChangeNeeded(time_diff) THEN schedule
               ELSE ShiftLoop(schedule, FirstShifted(completed), time_diff)

\* the call: whichever of current_schedule and updated_schedule it returns,
\* the list holds the caller's dicts
update_schedule(completed_task_id, actual_duration) ==
    /\ calls < MaxCalls
    /\ before' = current_schedule
    /\ current_schedule' =
          UpdateResult(current_schedule, completed_task_id, actual_duration)
    /\ returned' = current_schedule'
    /\ args' = [completed_task_id |-> completed_task_id,
                actual_duration |-> actual_duration]
    /\ calls' = calls + 1
    /\ UNCHANGED <<createVars, raceVars, parserVars>>

\* schedules handed to update_schedule: three entries in list order, laid
\* out one after the other forward or backward in time, of whole-minute
\* durations, at most one of them with a deadline or with a text that does
\* not parse
ScheduleIds == <<PyStr("1"), PyStr("2"), PyStr("3")>>

CompletedIds == {PyInt("1"), PyStr("2"), PyStr("3"), PyStr("nonexistent")}

DeadlineNear == timedelta(4)
DeadlineFar == timedelta(TightBufferHours * 60 + 4)
\* a deadline exactly TightBufferHours after an end the entries can take
DeadlineEdge == 1 + timedelta(TightBufferHours * 60 + 4)

Layout(durations, forward) ==
    LET s1 == IF forward THEN 1 ELSE 1 + timedelta(durations[3] + durations[2])
        s2 == IF forward THEN 1 + timedelta(durations[1])
              ELSE 1 + timedelta(durations[3])
        s3 == IF forward THEN 1 + timedelta(durations[1] + durations[2]) ELSE 1
        starts == <<s1, s2, s3>>
    IN [i \in 1..3 |->
          TaskDict([task_id |-> ScheduleIds[i],
                    start_time |-> starts[i],
                    end_time |-> starts[i] + timedelta(durations[i]),
                    assigned_to |-> "default",
                    deadline |-> None])]

PlainSchedules ==
    {Layout(<<d1, d2, 1>>, f) : d1 \in 1..2, d2 \in 1..2, f \in BOOLEAN}

InitialSchedules ==
    PlainSchedules
    \cup {[p EXCEPT ![i].deadline = Some(d)] :
            p \in PlainSchedules, i \in 1..3,
            d \in {isoformat(DeadlineNear), isoformat(DeadlineFar),
                   isoformat(DeadlineEdge), BadIso}}
    \cup {[p EXCEPT ![i].start_time = BadIso] : p \in PlainSchedules, i \in 1..3}
    \cup {[p EXCEPT ![i].end_time = BadIso] : p \in PlainSchedules, i \in 1..3}

Update ==
    \E completed_task_id \in CompletedIds, actual_duration \in 0..MaxActual :
        /\ update_schedule(completed_task_id, actual_duration)
        /\ UNCHANGED history

\* a call in a sequence of calls that complete the first two entries; the
\* list each call was handed and its arguments are recorded
UpdateInSequence ==
    \E completed_task_id \in {PyInt("1"), PyStr("2")},
       actual_duration \in 0..MaxActual :
        /\ update_schedule(completed_task_id, actual_duration)
        /\ history' = Append(history, [before |-> current_schedule,
                                       completed_task_id |-> completed_task_id,
                                       actual_duration |-> actual_duration])

CreateIdle ==
    /\ pc = "idle"
    /\ clock = 0
    /\ tasks = <<>>
    /\ estimates = <<>>
    /\ task_deadlines = EmptyDict
    /\ global_constraints = [project_deadline |-> None]
    /\ calendar = NoCalendar
    /\ unavailable_times = <<>>
    /\ idx = 0
    /\ task_durations = EmptyDict
    /\ model = EmptyModel
    /\ status = "NONE"
    /\ solution = EmptyDict
    /\ scheduled_tasks = <<>>
    /\ current_time = 0
    /\ task_ids_to_schedule = {}
    /\ scheduled_task_ids = {}
    /\ forced = {}
    /\ twin = NoTwin

UpdateInit ==
    /\ CreateIdle
    /\ current_schedule \in InitialSchedules
    /\ returned = <<>>
    /\ before = <<>>
    /\ args = NoArgs
    /\ calls = 0
    /\ worker = [w \in Workers |-> IdleWorker]
    /\ overlapped = FALSE
    /\ history = <<>>
    /\ ParserIdle

UpdateNext == Update

UpdateSpec == UpdateInit /\ [][UpdateNext]_vars

SequenceNext == UpdateInSequence

SequenceSpec == UpdateInit /\ [][SequenceNext]_vars

\* ----------------------------------- update_schedule, two calls unserialized
\* Each call reads and writes the dicts of the one list entry by entry; a
\* step is one read or one write of a 'start_time' or an 'end_time'.

\* lines 323-324 with the difference added twice
NewTimeTwice(t, time_diff) == t + timedelta(time_diff) + timedelta(time_diff)

\* lines 323-324: current_start + timedelta(minutes=time_diff)
NewTime(t, time_diff) == t + timedelta(time_diff)

Running(w) == worker[w].pc \notin {"idle", "done"}

\* line 280: the call starts
RaceCall(w) ==
    /\ worker[w].pc = "idle"
    /\ \E completed_task_id \in {PyInt("1"), PyStr("2")},
          actual_duration \in 0..MaxActual :
          worker' = [worker EXCEPT ![w] =
                        [IdleWorker EXCEPT !.pc = "find",
                                           !.completed_task_id = completed_task_id,
                                           !.actual_duration = actual_duration]]
    /\ overlapped' = (overlapped \/ \E v \in Workers \ {w} : Running(v))
    /\ UNCHANGED <<createVars, history, parserVars, current_schedule, returned, before, args, calls>>

\* lines 294-304: the completed task is looked up
RaceFind(w) ==
    /\ worker[w].pc = "find"
    /\ LET completed == FindCompleted(current_schedule, worker[w].completed_task_id)
       IN worker' = [worker EXCEPT ![w].completed_index = completed,
                                   ![w].pc = IF completed = 0 THEN "done"
                                             ELSE "duration_end"]
    /\ UNCHANGED <<createVars, history, parserVars, current_schedule, returned, before, args, calls,
                   overlapped>>

\* line 307: completed_task["end_time"] is read
RaceDurationEnd(w) ==
    /\ worker[w].pc = "duration_end"
    /\ worker' = [worker EXCEPT
                    ![w].end_read =
                        fromisoformat(current_schedule[worker[w].completed_index].end_time),
                    ![w].pc = "duration_start"]
    /\ UNCHANGED <<createVars, history, parserVars, current_schedule, returned, before, args, calls,
                   overlapped>>

\* lines 308-316: completed_task["start_time"] is read, time_diff follows
RaceDurationStart(w) ==
    /\ worker[w].pc = "duration_start"
    /\ LET start == fromisoformat(current_schedule[worker[w].completed_index].start_time)
           scheduled_duration == Minutes(worker[w].end_read - start)
           time_diff == worker[w].actual_duration - scheduled_duration
           first == FirstShifted(worker[w].completed_index)
       IN worker' = [worker EXCEPT
                        ![w].time_diff = time_diff,
                        ![w].i = first,
                        ![w].pc = IF NoChangeNeeded(time_diff)
                                     \/ first > Len(current_schedule)
                                  THEN "done" ELSE "read_start"]
    /\ UNCHANGED <<createVars, history, parserVars, current_schedule, returned, before, args, calls,
                   overlapped>>

\* line 319
RaceReadStart(w) ==
    /\ worker[w].pc = "read_start"
    /\ worker' = [worker EXCEPT
                    ![w].current_start =
                        fromisoformat(current_schedule[worker[w].i].start_time),
                    ![w].pc = "read_end"]
    /\ UNCHANGED <<createVars, history, parserVars, current_schedule, returned, before, args, calls,
                   overlapped>>

\* line 320
RaceReadEnd(w) ==
    /\ worker[w].pc = "read_end"
    /\ worker' = [worker EXCEPT
                    ![w].current_end =
                        fromisoformat(current_schedule[worker[w].i].end_time),
                    ![w].pc = "write_start"]
    /\ UNCHANGED <<createVars, history, parserVars, current_schedule, returned, before, args, calls,
                   overlapped>>

\* lines 323 and 327
RaceWriteStart(w) ==
    /\ worker[w].pc = "write_start"
    /\ current_schedule' =
          [current_schedule EXCEPT ![worker[w].i].start_time =
              isoformat(NewTime(worker[w].current_start, worker[w].time_diff))]
    /\ worker' = [worker EXCEPT ![w].pc = "write_end"]
    /\ UNCHANGED <<createVars, history, parserVars, returned, before, args, calls, overlapped>>

\* lines 324 and 328, and the loop goes on or ends
RaceWriteEnd(w) ==
    /\ worker[w].pc = "write_end"
    /\ current_schedule' =
          [current_schedule EXCEPT ![worker[w].i].end_time =
              isoformat(NewTime(worker[w].current_end, worker[w].time_diff))]
    /\ worker' = [worker EXCEPT
                    ![w].i = worker[w].i + 1,
                    ![w].pc = IF worker[w].i + 1 > Len(current_schedule)
                              THEN "done" ELSE "read_start"]
    /\ UNCHANGED <<createVars, history, parserVars, returned, before, args, calls, overlapped>>

\* the schedules the two calls run on: entries without deadlines
RaceSchedules == {Layout(<<d1, d2, 1>>, TRUE) : d1 \in 1..2, d2 \in 1..2}

RaceInit ==
    /\ CreateIdle
    /\ current_schedule \in RaceSchedules
    /\ before = current_schedule
    /\ returned = <<>>
    /\ args = NoArgs
    /\ calls = 0
    /\ worker = [w \in Workers |-> IdleWorker]
    /\ overlapped = FALSE
    /\ history = <<>>
    /\ ParserIdle

RaceNext ==
    \E w \in Workers :
        \/ RaceCall(w)
        \/ RaceFind(w)
        \/ RaceDurationEnd(w)
        \/ RaceDurationStart(w)
        \/ RaceReadStart(w)
        \/ RaceReadEnd(w)
        \/ RaceWriteStart(w)
        \/ RaceWriteEnd(w)

RaceSpec == RaceInit /\ [][RaceNext]_vars

\* ------------------------------------------------------- time_constraint_parser
\* A datetime is a record of year, month, day, hour, minute and second of
\* the proleptic Gregorian calendar, as Python's datetime is (microseconds
\* are left out: the parser never sets a time but 23:59:59 or midnight).

is_leap(year) == year % 4 = 0 /\ (year % 100 # 0 \/ year % 400 = 0)

\* datetime's days in a month
days_in_month(year, month) ==
    IF month = 2 /\ is_leap(year) THEN 29
    ELSE <<31, 28, 31, 30, 31, 30, 31, 31, 30, 31, 30, 31>>[month]

\* datetime(year, month, day, ...) and datetime.replace raise ValueError on
\* a day the month does not have
ValidDate(year, month, day) ==
    /\ month \in 1..12
    /\ day \in 1..days_in_month(year, month)

datetime(year, month, day, hour, minute, second) ==
    [year |-> year, month |-> month, day |-> day,
     hour |-> hour, minute |-> minute, second |-> second]

\* dt.replace(hour=23, minute=59, second=59)
EndOfDay(dt) == [dt EXCEPT !.hour = 23, !.minute = 59, !.second = 59]

PreviousDay(dt) ==
    IF dt.day > 1 THEN [dt EXCEPT !.day = @ - 1]
    ELSE IF dt.month > 1
         THEN [dt EXCEPT !.month = @ - 1,
                         !.day = days_in_month(dt.year, dt.month - 1)]
    ELSE [dt EXCEPT !.year = @ - 1, !.month = 12, !.day = 31]

NextDay(dt) ==
    IF dt.day < days_in_month(dt.year, dt.month) THEN [dt EXCEPT !.day = @ + 1]
    ELSE IF dt.month < 12 THEN [dt EXCEPT !.month = @ + 1, !.day = 1]
    ELSE [dt EXCEPT !.year = @ + 1, !.month = 1, !.day = 1]

\* dt - timedelta(seconds=1)
MinusSecond(dt) ==
    IF dt.second > 0 THEN [dt EXCEPT !.second = @ - 1]
    ELSE IF dt.minute > 0 THEN [dt EXCEPT !.minute = @ - 1, !.second = 59]
    ELSE IF dt.hour > 0 THEN [dt EXCEPT !.hour = @ - 1, !.minute = 59, !.second = 59]
    ELSE EndOfDay(PreviousDay(dt))

\* dt + timedelta(days=days)
RECURSIVE PlusDays(_, _)
PlusDays(dt, days) == IF days = 0 THEN dt ELSE PlusDays(NextDay(dt), days - 1)

RECURSIVE DaysBeforeMonth(_, _)
DaysBeforeMonth(year, month) ==
    IF month = 1 THEN 0
    ELSE DaysBeforeMonth(year, month - 1) + days_in_month(year, month - 1)

\* dt.toordinal(): 1 for 1 January of year 1
toordinal(dt) ==
    LET y == dt.year - 1
    IN y * 365 + y \div 4 - y \div 100 + y \div 400
           + DaysBeforeMonth(dt.year, dt.month) + dt.day

\* dt.weekday(): 0 for Monday, 6 for Sunday
weekday(dt) == (toordinal(dt) + 6) % 7


\* lines 57-60: midnight of the first day of the month after now's
next_month(now) ==
    IF now.month = 12 THEN datetime(now.year + 1, 1, 1, 0, 0, 0)
    ELSE datetime(now.year, now.month + 1, 1, 0, 0, 0)

\* next_next_month with December not carried into the next year
next_next_month_no_carry(now) ==
    IF now.month < 11 THEN datetime(now.year, now.month + 2, 1, 0, 0, 0)
    ELSE IF now.month = 11 THEN datetime(now.year + 1, 1, 1, 0, 0, 0)
    ELSE datetime(now.year, 2, 1, 0, 0, 0)

\* lines 83-88: midnight of the first day of the second month after now's
next_next_month(now) ==
    IF now.month < 11 THEN datetime(now.year, now.month + 2, 1, 0, 0, 0)
    ELSE IF now.month = 11 THEN datetime(now.year + 1, 1, 1, 0, 0, 0)
    ELSE datetime(now.year + 1, 2, 1, 0, 0, 0)

\* lines 67-68 and 77-78
days_until_sunday(now) == (6 - weekday(now)) % 7

\* lines 109-111: the while loop, as <<new_year, new_month>>
RECURSIVE RollOver(_, _)
RollOver(new_year, new_month) ==
    IF new_month > 12 THEN RollOver(new_year + 1, new_month - 12)
    ELSE <<new_year, new_month>>

\* last_day with every fourth year a leap year
last_day_julian(new_year, new_month) ==
    IF new_month = 2 THEN (IF new_year % 4 = 0 THEN 29 ELSE 28)
    ELSE IF new_month \in {4, 6, 9, 11} THEN 30
    ELSE 31

\* lines 119-124
last_day(new_year, new_month) ==
    IF new_month = 2
    THEN (IF (new_year % 4 = 0 /\ new_year % 100 # 0) \/ new_year % 400 = 0
          THEN 29 ELSE 28)
    ELSE IF new_month \in {4, 6, 9, 11} THEN 30
    ELSE 31

\* lines 106-128
months_from_now(now, num_months) ==
    LET rolled == RollOver(now.year, now.month + num_months)
        new_year == rolled[1]
        new_month == rolled[2]
        result_date ==
            IF ValidDate(new_year, new_month, now.day)
            THEN [now EXCEPT !.year = new_year, !.month = new_month]
            ELSE datetime(new_year, new_month, last_day(new_year, new_month), 0, 0, 0)
    IN EndOfDay(result_date)

\* the names of self.patterns (lines 11-22)
Patterns ==
    {"end_of_year", "end_of_month", "end_of_week", "end_of_day", "next_week",
     "next_month", "specific_date", "days_from_now", "weeks_from_now",
     "months_from_now"}

\* lines 24-139: the deadline found in the text, read at the instant now
extract_deadline(text, now) ==
    IF text.empty THEN None
    ELSE IF "specific_date" \in text.matches /\ text.specific # None
         THEN Some(EndOfDay(text.specific[1]))
    ELSE IF "end_of_year" \in text.matches
         THEN Some(datetime(now.year, 12, 31, 23, 59, 59))
    ELSE IF "end_of_month" \in text.matches
         THEN Some(MinusSecond(next_month(now)))
    ELSE IF "end_of_week" \in text.matches
         THEN Some(EndOfDay(PlusDays(now, days_until_sunday(now))))
    ELSE IF "end_of_day" \in text.matches
         THEN Some(EndOfDay(now))
    ELSE IF "next_week" \in text.matches
         THEN Some(EndOfDay(PlusDays(now, days_until_sunday(now) + 7)))
    ELSE IF "next_month" \in text.matches
         THEN Some(MinusSecond(next_next_month(now)))
    ELSE IF "days_from_now" \in text.matches
         THEN Some(EndOfDay(PlusDays(now, text.n)))
    ELSE IF "weeks_from_now" \in text.matches
         THEN Some(EndOfDay(PlusDays(now, text.n * 7)))
    ELSE IF "months_from_now" \in text.matches
         THEN Some(months_from_now(now, text.n))
    ELSE text.parsed

\* the project deadline cleared by a string without a deadline
ProjectDeadlineOrNone(project_deadline, deadline) == deadline

\* lines 191-193
ProjectDeadline(project_deadline, deadline) ==
    IF deadline # None THEN deadline ELSE project_deadline

\* lines 196-207
WorkHours(work_hours, text) ==
    IF text.work_hours = None THEN work_hours
    ELSE LET m == text.work_hours[1]
         IN [start |-> IF m.pm /\ m.start < 12 THEN m.start + 12 ELSE m.start,
             end |-> IF m.pm /\ m.end < 12 THEN m.end + 12 ELSE m.end]

\* lines 210-214
WeekendsOff(weekends_off, text) ==
    IF "exclude" \in text.weekends THEN TRUE
    ELSE IF "include" \in text.weekends THEN FALSE
    ELSE weekends_off

\* lines 186-214: the loop from position i on
RECURSIVE ConstraintLoop(_, _, _, _)
ConstraintLoop(constraints, i, global, now) ==
    IF i > Len(constraints) THEN global
    ELSE IF constraints[i].empty THEN ConstraintLoop(constraints, i + 1, global, now)
    ELSE ConstraintLoop(constraints, i + 1,
             [project_deadline |->
                  ProjectDeadline(global.project_deadline,
                                  extract_deadline(constraints[i], now)),
              work_hours |-> WorkHours(global.work_hours, constraints[i]),
              weekends_off |-> WeekendsOff(global.weekends_off, constraints[i])],
             now)

\* lines 170-216
extract_global_constraints(constraints, now) ==
    ConstraintLoop(constraints, 1, DefaultGlobalConstraints, now)

\* the non-empty constraint strings, as positions
NonEmpty(constraints) == {i \in 1..Len(constraints) : ~constraints[i].empty}


\* a non-empty text in which the patterns of matches are found
Text(matches, n) ==
    [empty |-> FALSE, matches |-> matches, n |-> n, specific |-> None,
     parsed |-> None, work_hours |-> None, weekends |-> {}]

\* the date dateparser finds in the texts that hold one
ParsedDate == datetime(2024, 2, 29, 0, 0, 0)

\* texts handed to extract_deadline: the empty one, ones without a time
\* phrase, one phrase each, two phrases of which the code takes the first
\* it tests, and dates left to dateparser
PhraseTexts ==
    {NoText, Text({}, 0)}
    \cup {Text({p}, 0) : p \in {"end_of_year", "end_of_month", "end_of_week",
                               "end_of_day", "next_week", "next_month"}}
    \cup {Text({"end_of_month", "next_month"}, 0),
          Text({"next_month", "months_from_now"}, 1)}
    \cup {Text({p}, n) : p \in {"days_from_now", "weeks_from_now"}, n \in 0..MaxDays}
    \cup {Text({"months_from_now"}, n) : n \in 0..MaxMonths}
    \cup {[Text({"specific_date"}, 0) EXCEPT !.specific = Some(ParsedDate)],
          Text({"specific_date", "end_of_month"}, 0),
          [Text({}, 0) EXCEPT !.parsed = Some(ParsedDate)]}

\* constraint strings: the empty one, one without a deadline that sets the
\* work hours and the weekends, and three with a deadline
ConstraintTexts ==
    {NoText,
     [Text({}, 0) EXCEPT !.work_hours = Some([start |-> 8, end |-> 4, pm |-> TRUE]),
                         !.weekends = {"include"}],
     Text({"end_of_year"}, 0),
     Text({"next_month"}, 0),
     Text({"months_from_now"}, 1)}

ConstraintLists ==
    UNION {[1..k -> ConstraintTexts] : k \in 0..MaxConstraints}

\* the instants datetime.now() gives: common years, a leap year and a
\* century year that is none, every month, the first and the last days
Nows ==
    {now \in {datetime(y, m, d, t[1], t[2], t[3]) :
                  y \in {2023, 2024, 2099, 2100}, m \in 1..12,
                  d \in {1, 28, 29, 30, 31},
                  t \in {<<0, 0, 0>>, <<10, 30, 15>>}} :
        ValidDate(now.year, now.month, now.day)}

\* no call has been made: the parser keeps nothing between calls, so a
\* behaviour is one call at the instant parser_now
ParserFresh == parser_text = NoText /\ parser_constraints = <<>>

\* a call of extract_deadline
ExtractDeadline ==
    /\ ParserFresh
    /\ \E text \in PhraseTexts :
        /\ parser_text' = text
        /\ parser_deadline' = extract_deadline(text, parser_now)
        /\ parser_constraints' = <<>>
        /\ parser_global' = DefaultGlobalConstraints
        /\ UNCHANGED <<createVars, updateVars, parser_now>>

\* a call of extract_global_constraints, with the calls of extract_deadline
\* it makes
ExtractGlobalConstraints ==
    /\ ParserFresh
    /\ \E constraints \in ConstraintLists :
        /\ parser_constraints' = constraints
        /\ parser_global' = extract_global_constraints(constraints, parser_now)
        /\ IF NonEmpty(constraints) = {}
           THEN UNCHANGED <<parser_text, parser_deadline>>
           ELSE LET last == CHOOSE i \in NonEmpty(constraints) :
                               \A j \in NonEmpty(constraints) : j <= i
                IN /\ parser_text' = constraints[last]
                   /\ parser_deadline' = extract_deadline(constraints[last], parser_now)
        /\ UNCHANGED <<createVars, updateVars, parser_now>>

ParserInit ==
    /\ CreateIdle
    /\ current_schedule = <<>>
    /\ returned = <<>>
    /\ before = <<>>
    /\ args = NoArgs
    /\ calls = 0
    /\ worker = [w \in Workers |-> IdleWorker]
    /\ overlapped = FALSE
    /\ history = <<>>
    /\ parser_now \in Nows
    /\ parser_text = NoText
    /\ parser_deadline = None
    /\ parser_constraints = <<>>
    /\ parser_global = DefaultGlobalConstraints

ParserNext == ExtractDeadline \/ ExtractGlobalConstraints

ParserSpec == ParserInit /\ [][ParserNext]_vars


\* ===================================================== properties: create_schedule
Returned == pc = "done"
SolverPath == status \in {"OPTIMAL", "FEASIBLE"}
FallbackPath == status \in {"INFEASIBLE", "UNKNOWN"}

BatchIds == {str(tasks[i].id) : i \in 1..Len(tasks)}

\* the dependencies of the task with identifier tid that are tasks of the batch
BatchDependencies(tid) ==
    {d \in BatchIds : \E i \in 1..Len(tasks) :
        /\ str(tasks[i].id) = tid
        /\ \E k \in 1..Len(tasks[i].dependencies) : str(tasks[i].dependencies[k]) = d}

\* C1: in every returned schedule, solver path or fallback path, a task
\* starts at or after the end of each of its dependencies that is a task of
\* the batch and is in the schedule.
DependencyOrdering ==
    Returned =>
        \A i \in 1..Len(scheduled_tasks) : \A j \in 1..Len(scheduled_tasks) :
            scheduled_tasks[j].task_id \in BatchDependencies(scheduled_tasks[i].task_id)
                => scheduled_tasks[i].start_time >= scheduled_tasks[j].end_time

\* the estimates whose task_id has the text of the value v, as positions
EstimatesFor(v) ==
    {i \in 1..Len(estimates) : estimates[i].task_id.s = v.s}

\* the duration the claim C2 gives the task: that of the first estimate for
\* its identifier, 60 without one
ClaimedDuration(task) ==
    IF EstimatesFor(task.id) # {}
    THEN estimates[Min(EstimatesFor(task.id))].estimated_duration_minutes
    ELSE 60

\* the same, with the estimates for the value under the task's 'ID' key
\* tried before the 60 minutes
DurationWithAlternateKey(task) ==
    IF EstimatesFor(task.id) # {}
    THEN estimates[Min(EstimatesFor(task.id))].estimated_duration_minutes
    ELSE IF task.ID # NoKey /\ EstimatesFor(task.ID) # {}
    THEN estimates[Min(EstimatesFor(task.ID))].estimated_duration_minutes
    ELSE 60

TaskOf(entry) == tasks[CHOOSE i \in 1..Len(tasks) : tasks[i].id = entry.task_id]

DeadlineRespected ==
    (Returned /\ SolverPath) =>
        \A i \in 1..Len(scheduled_tasks) :
            scheduled_tasks[i].task_id \in DOMAIN model.deadline
                => scheduled_tasks[i].end_time
                       <= task_deadlines[scheduled_tasks[i].task_id]

\* C4: on the solver path, no returned entry's [start, end) intersects a
\* busy interval of the calendar.
NoBusyOverlap ==
    (Returned /\ SolverPath) =>
        \A i \in 1..Len(scheduled_tasks) : \A k \in 1..Len(unavailable_times) :
            ~ /\ scheduled_tasks[i].start_time < unavailable_times[k][2]
              /\ unavailable_times[k][1] < scheduled_tasks[i].end_time
              /\ scheduled_tasks[i].start_time < scheduled_tasks[i].end_time

\* the dependency graph of the batch has a cycle: some nonempty set of its
\* tasks in which every task depends on a task of the set
Cyclic ==
    \E S \in SUBSET (1..Len(tasks)) :
        /\ S # {}
        /\ \A i \in S : \E j \in S : str(tasks[j].id) \in Dependencies(tasks[i])

OnePerTask ==
    /\ Len(scheduled_tasks) = Len(tasks)
    /\ \A t \in BatchIds :
          Cardinality({i \in 1..Len(scheduled_tasks) : scheduled_tasks[i].task_id = t}) = 1

\* C5: a call on a batch whose dependency graph has a cycle terminates and
\* returns exactly one entry per task: the fallback is never stuck, every
\* round of its while loop (each appends one entry) takes exactly one
\* identifier out of the set still to schedule, and the returned list has
\* one entry per task.
FallbackTermination ==
    (pc \in {"fallback", "while", "done"} /\ Cyclic) =>
        /\ pc # "done" => ENABLED (FallbackStart \/ FallbackReady \/ FallbackForced)
        /\ (pc # "fallback" /\ FallbackPath) =>
              /\ Cardinality(task_ids_to_schedule)
                    = Len(tasks) - Len(scheduled_tasks)
              /\ task_ids_to_schedule \cap scheduled_task_ids = {}
        /\ Returned => OnePerTask

\* a schedule with one entry per task is returned for a cyclic batch after a
\* task was placed by the circular-dependency branch
FallbackTerminationWitness ==
    /\ Returned
    /\ Cyclic
    /\ forced # {}
    /\ OnePerTask

\* C6: whenever the solver ends with a status other than optimal or
\* feasible, the call goes on into the fallback, no step of the fallback is
\* stuck, and the schedule it returns has every task of the batch.
InfeasibleNeverError ==
    FallbackPath =>
        /\ pc \in {"fallback", "while", "done"}
        /\ pc # "done" => ENABLED (FallbackStart \/ FallbackReady \/ FallbackForced)
        /\ pc = "done" =>
              \A t \in BatchIds :
                  \E i \in 1..Len(scheduled_tasks) : scheduled_tasks[i].task_id = t

\* the solver proved a model with a deadline, a busy interval and a
\* dependency infeasible, and the fallback returned every task
InfeasibleWitness ==
    /\ Returned
    /\ status = "INFEASIBLE"
    /\ DOMAIN model.deadline # {}
    /\ Len(model.busy) > 0
    /\ model.deps # {}
    /\ OnePerTask

\* C11: on the solver path, when the project deadline was ahead of the clock
\* by a positive number of minutes when the model was built, every returned
\* entry ends at or before the project deadline.
ProjectDeadlineRespected ==
    (Returned /\ SolverPath /\ model.project # None) =>
        \A i \in 1..Len(scheduled_tasks) :
            scheduled_tasks[i].end_time <= global_constraints.project_deadline[1]


\* the largest end offset of the tasks under the start offsets a, 0 for none
MaxEndOffset(a) ==
    LET ends == {a[t] + task_durations[t] : t \in DOMAIN a}
    IN IF ends = {} THEN 0 ELSE CHOOSE x \in ends : \A y \in ends : x >= y

\* C12: when the solver reports OPTIMAL, the start offsets it hands to the
\* result mapping satisfy the constraints of the model, and their largest
\* end offset is the least largest end offset over all assignments of start
\* offsets that satisfy them.
MakespanOptimality ==
    (pc \in {"map", "done"} /\ status = "OPTIMAL") =>
        /\ solution \in Solutions(model)
        /\ \A a \in Solutions(model) : MaxEndOffset(solution) <= MaxEndOffset(a)

\* an optimal schedule was returned for a model with a dependency edge, a
\* busy interval and a deadline, the tasks do not all end at offset 0, and
\* the model has a solution with a larger makespan
MakespanOptimalityWitness ==
    /\ Returned
    /\ status = "OPTIMAL"
    /\ model.deps # {}
    /\ Len(model.busy) > 0
    /\ (DOMAIN model.deadline # {} \/ model.project # None)
    /\ MaxEndOffset(solution) > 0
    /\ \E a \in Solutions(model) : MaxEndOffset(a) > MaxEndOffset(solution)


\* C14: two runs on the same tasks, estimates, constraints, busy intervals
\* and clock that both take the fallback return the same entries in the
\* same order with the same start and end times, forced tasks included.
FallbackDeterminism ==
    (Returned /\ FallbackPath) => twin.scheduled_tasks = scheduled_tasks


\* the calendar has no service, gives no answer, or has an event whose
\* start or end does not parse
ProviderFails ==
    \/ ~calendar.calendar_service
    \/ ~calendar.answers
    \/ \E i \in 1..Len(calendar.items) :
          ~calendar.items[i].start.valid \/ ~calendar.items[i].end.valid

\* C15: when the calendar service is absent, fetching fails or a fetched
\* event does not parse, the provider hands the call an empty list, the
\* call goes through every step as it does without busy intervals (no busy
\* constraint in the model, no step stuck), and returns one entry per task.
ProviderDegradesToEmpty ==
    (pc # "idle" /\ ProviderFails) =>
        /\ unavailable_times = <<>>
        /\ model.busy = <<>>
        /\ pc # "step3"
        /\ pc # "done" =>
              ENABLED (Step1 \/ Step2 \/ Step4 \/ Solve \/ MapResult
                       \/ FallbackStart \/ FallbackReady \/ FallbackForced)
        /\ Returned => OnePerTask

\* a schedule was returned by a call whose calendar gave an event that
\* parses followed or preceded by one that does not
ProviderDegradesWitness ==
    /\ Returned
    /\ calendar.calendar_service /\ calendar.answers
    /\ Len(calendar.items) = 2
    /\ \E i \in 1..2 : calendar.items[i].start.valid
    /\ \E i \in 1..2 : ~calendar.items[i].start.valid
    /\ unavailable_times = <<>>
    /\ OnePerTask


\* C16: in every schedule returned by the solver path, the entries are in
\* nondecreasing order of start time.
SolverListOrderTemporal ==
    (Returned /\ SolverPath) =>
        \A i \in 1..Len(scheduled_tasks) : \A j \in 1..Len(scheduled_tasks) :
            i < j => scheduled_tasks[i].start_time <= scheduled_tasks[j].start_time


\* identifiers of the first k entries of the fallback's list
PlacedBefore(k) == {scheduled_tasks[j].task_id : j \in 1..(k - 1)}

\* positions of the tasks that were not yet placed before round k and whose
\* dependencies, in the batch or not, were all placed
ReadyBefore(k) ==
    {i \in 1..Len(tasks) :
        /\ tasks[i].id \notin PlacedBefore(k)
        /\ \A n \in 1..Len(tasks[i].dependencies) :
              PyStr(tasks[i].dependencies[n].s) \in PlacedBefore(k)}

\* C17: in the fallback, the task placed in a round is force-scheduled only
\* if no remaining task had all its dependencies placed; otherwise it is the
\* first task in input order whose dependencies were all placed; and every
\* task that was not force-scheduled starts at or after the end of each of
\* its dependencies in the batch.
ForcedOnlyWhenNoneReady ==
    (pc \in {"while", "done"} /\ FallbackPath) =>
        \A k \in 1..Len(scheduled_tasks) :
            LET entry == scheduled_tasks[k]
                ready == ReadyBefore(k)
            IN /\ entry.task_id \in forced <=> ready = {}
               /\ ready # {} =>
                     entry.task_id
                        = tasks[CHOOSE i \in ready : \A j \in ready : i <= j].id
               /\ entry.task_id \notin forced =>
                     \A j \in 1..Len(scheduled_tasks) :
                         scheduled_tasks[j].task_id \in BatchDependencies(entry.task_id)
                             => entry.start_time >= scheduled_tasks[j].end_time

\* the fallback returned a schedule in which a task was force-scheduled and
\* a task that depends on a task of the batch was placed without force
\* after tasks that take time
ForcedOnlyWhenNoneReadyWitness ==
    /\ Returned /\ FallbackPath
    /\ forced # {}
    /\ \E k \in 1..Len(scheduled_tasks) :
          /\ scheduled_tasks[k].task_id \notin forced
          /\ BatchDependencies(scheduled_tasks[k].task_id) # {}
          /\ scheduled_tasks[k].start_time > scheduled_tasks[1].start_time


\* whole minutes from the instant the call started (the clock is at 0 then)
\* to the instant d, as int(seconds / 60) gives them
OffsetAtCall(d) == IF d >= 0 THEN d \div TicksPerMinute ELSE -((-d) \div TicksPerMinute)

\* the same from the latest read of the clock
OffsetAtClock(d) ==
    IF d >= clock THEN (d - clock) \div TicksPerMinute
    ELSE -((clock - d) \div TicksPerMinute)

\* C19: a task deadline or a project deadline whose offset from now is zero
\* or negative adds no constraint to the model (one whose offset is positive
\* adds the constraint with that positive offset), so the solver calls a
\* model infeasible only if no assignment within the horizon satisfies the
\* constraints other than passed deadlines.
StaleDeadlinesSkipped ==
    /\ pc \in {"step2", "step3", "step4", "solve", "map", "fallback", "while", "done"} =>
          \A t \in DOMAIN task_deadlines \cap BatchIds :
              /\ OffsetAtCall(task_deadlines[t]) <= 0 => t \notin DOMAIN model.deadline
              /\ OffsetAtClock(task_deadlines[t]) > 0 => t \in DOMAIN model.deadline
              /\ t \in DOMAIN model.deadline =>
                    /\ model.deadline[t] > 0
                    /\ model.deadline[t] <= OffsetAtCall(task_deadlines[t])
                    /\ model.deadline[t] >= OffsetAtClock(task_deadlines[t])
    /\ (pc \in {"solve", "map", "fallback", "while", "done"}
          /\ global_constraints.project_deadline # None) =>
          LET d == global_constraints.project_deadline[1]
          IN /\ OffsetAtCall(d) <= 0 => model.project = None
             /\ OffsetAtClock(d) > 0 => model.project # None
             /\ model.project # None =>
                   /\ model.project[1] > 0
                   /\ model.project[1] <= OffsetAtCall(d)
    /\ status = "INFEASIBLE" =>
          ~ \E a \in [BatchIds -> 0..max_time] :
                /\ \A t \in BatchIds : a[t] + task_durations[t] <= max_time
                /\ \A t \in DOMAIN model.deadline :
                      /\ model.deadline[t] <= max_time
                      /\ a[t] + task_durations[t] <= model.deadline[t]
                /\ \A t \in BatchIds : \A d \in BatchDependencies(t) :
                      a[t] >= a[d] + task_durations[d]
                /\ \A n \in 1..Len(model.busy) : \A t \in BatchIds :
                      \/ a[t] + task_durations[t] <= model.busy[n][1]
                      \/ a[t] >= model.busy[n][2]
                /\ model.project # None =>
                      /\ model.project[1] <= max_time
                      /\ \A t \in BatchIds :
                            a[t] + task_durations[t] <= model.project[1]

\* the solver path returned a schedule for a batch with a dependency, in
\* which a task has a deadline that had passed and the project deadline had
\* passed too
StaleDeadlinesWitness ==
    /\ Returned /\ SolverPath
    /\ \E t \in DOMAIN task_deadlines \cap BatchIds :
          OffsetAtCall(task_deadlines[t]) <= 0
    /\ global_constraints.project_deadline # None
    /\ OffsetAtCall(global_constraints.project_deadline[1]) <= 0
    /\ model.deps # {}
    /\ OnePerTask
    /\ \E i \in 1..Len(scheduled_tasks) :
          scheduled_tasks[i].end_time > scheduled_tasks[i].start_time


\* C20: no entry placed by the fallback, ready or forced, has its start
\* inside a busy interval, whatever the list of busy intervals.
FallbackAvoidsBusy ==
    (pc \in {"while", "done"} /\ FallbackPath) =>
        \A i \in 1..Len(scheduled_tasks) : \A k \in 1..Len(unavailable_times) :
            ~ /\ unavailable_times[k][1] <= scheduled_tasks[i].start_time
              /\ scheduled_tasks[i].start_time < unavailable_times[k][2]


\* C21: on the solver path, the start offset and the end offset the solver
\* gives every task lie in [0, max_time], every returned entry starts that
\* offset after a read of the clock made during the call and lasts the
\* task's duration, and a batch with a task that cannot end within the
\* horizon is not scheduled by the solver path.
HorizonBound ==
    /\ (pc \in {"map", "done"} /\ SolverPath) =>
          /\ \A t \in BatchIds :
                /\ solution[t] >= 0 /\ solution[t] <= max_time
                /\ solution[t] + task_durations[t] >= 0
                /\ solution[t] + task_durations[t] <= max_time
          /\ \A i \in 1..Len(scheduled_tasks) :
                LET e == scheduled_tasks[i]
                IN /\ e.start_time >= solution[e.task_id] * TicksPerMinute
                   /\ e.start_time <= clock + solution[e.task_id] * TicksPerMinute
                   /\ e.end_time - e.start_time
                         = task_durations[e.task_id] * TicksPerMinute
    /\ (pc \in {"map", "fallback", "while", "done"}
          /\ \E t \in BatchIds : task_durations[t] > max_time) => FallbackPath

\* the solver path returned a schedule in which a task ends at the horizon
HorizonBoundWitness ==
    /\ Returned /\ SolverPath
    /\ OnePerTask
    /\ \E t \in BatchIds :
          /\ task_durations[t] > 0
          /\ solution[t] + task_durations[t] = max_time

\* the fallback returned a schedule for a batch with a task longer than the
\* horizon, which the solver had proved infeasible
HorizonExceededWitness ==
    /\ Returned /\ status = "INFEASIBLE"
    /\ \E t \in BatchIds : task_durations[t] > max_time


\* the constraints the specification states for the solver path, on the
\* start offsets a: every task ends within the horizon, by its deadline and
\* by the project deadline (those not yet passed), after its dependencies
\* and outside every busy interval
StatedConstraints(a) ==
    /\ \A t \in BatchIds : a[t] + task_durations[t] <= max_time
    /\ \A t \in DOMAIN model.deadline :
          a[t] + task_durations[t] <= model.deadline[t]
    /\ \A t \in BatchIds : \A d \in BatchDependencies(t) :
          a[t] >= a[d] + task_durations[d]
    /\ \A n \in 1..Len(model.busy) : \A t \in BatchIds :
          \/ a[t] + task_durations[t] <= model.busy[n][1]
          \/ a[t] >= model.busy[n][2]
    /\ model.project # None =>
          \A t \in BatchIds : a[t] + task_durations[t] <= model.project[1]

\* C25: the solver proves a batch infeasible only when no assignment of
\* start offsets satisfies the stated constraints; a deadline lying beyond
\* the horizon does not by itself make the model infeasible.
FarDeadlineFeasible ==
    status = "INFEASIBLE" =>
        ~ \E a \in [BatchIds -> 0..max_time] : StatedConstraints(a)


\* C26: in every returned schedule, from the solver or from the fallback,
\* no two entries of positive duration overlap in time: one of them ends
\* no later than the other starts.
SingleWorker ==
    Returned =>
        \A i, j \in 1..Len(scheduled_tasks) :
            LET e == scheduled_tasks[i]
                f == scheduled_tasks[j]
            IN (i # j /\ e.end_time > e.start_time /\ f.end_time > f.start_time) =>
                   \/ e.end_time <= f.start_time
                   \/ f.end_time <= e.start_time


\* C27: a dependency on an identifier that is not a task of the batch never
\* affects the schedule: the solver's model holds precedences between tasks
\* of the batch only, and on the fallback path a batch whose tasks depend on
\* no task of the batch is scheduled as the batch without dependencies is,
\* in the order of the input list and with no forced scheduling.
ExternalDependencyIgnored ==
    /\ \A e \in model.deps : e[1] \in BatchIds /\ e[2] \in BatchIds
    /\ (Returned /\ FallbackPath /\ \A t \in BatchIds : BatchDependencies(t) = {}) =>
          /\ forced = {}
          /\ Len(scheduled_tasks) = Len(tasks)
          /\ \A i \in 1..Len(tasks) : scheduled_tasks[i].task_id = str(tasks[i].id)


\* ===================================================== properties: update_schedule
Called == calls > 0

\* the entries of the schedule before the call whose task_id string-equals
\* the completed_task_id of the call
Matching ==
    {i \in 1..Len(before) : before[i].task_id.s = args.completed_task_id.s}

Found == Matching # {}

\* the list index of the completed task (first match), counted from 1
CompletedIndex == CHOOSE i \in Matching : \A j \in Matching : i <= j

CompletedParses ==
    /\ before[CompletedIndex].start_time.valid
    /\ before[CompletedIndex].end_time.valid

\* actual duration minus scheduled duration, in minutes; the scheduled
\* duration of an entry is a whole number of minutes
Delta ==
    args.actual_duration
        - (before[CompletedIndex].end_time.t - before[CompletedIndex].start_time.t)
              \div TicksPerMinute

\* start, end and deadline of every entry after position i parse
ParsesAfter(i) ==
    \A k \in (i + 1)..Len(before) :
        /\ before[k].start_time.valid
        /\ before[k].end_time.valid
        /\ before[k].deadline # None => before[k].deadline[1].valid

SameTimes(a, b) ==
    /\ a.start_time = b.start_time
    /\ a.end_time = b.end_time

MovedBy(a, b, minutes) ==
    /\ b.start_time.valid /\ b.end_time.valid
    /\ b.start_time.t = a.start_time.t + minutes * TicksPerMinute
    /\ b.end_time.t = a.end_time.t + minutes * TicksPerMinute

\* C7: a call that completes the task at list index i with an actual
\* duration that differs from the scheduled one by delta # 0, on a schedule
\* whose entries after i parse, moves start and end of every entry after i
\* by exactly delta minutes and leaves start and end of the completed entry
\* and of every entry before it as they were.
ReschedulingShift ==
    (Called /\ Found /\ CompletedParses /\ Delta # 0 /\ ParsesAfter(CompletedIndex)) =>
        /\ Len(returned) = Len(before)
        /\ Len(current_schedule) = Len(before)
        /\ \A k \in 1..Len(before) :
              IF k > CompletedIndex
              THEN /\ MovedBy(before[k], returned[k], Delta)
                   /\ MovedBy(before[k], current_schedule[k], Delta)
              ELSE /\ SameTimes(before[k], returned[k])
                   /\ SameTimes(before[k], current_schedule[k])

\* the middle entry of three was completed late or early and the call
\* moved the entry after it
ReschedulingShiftWitness ==
    /\ Called /\ Found /\ CompletedParses /\ ParsesAfter(CompletedIndex)
    /\ CompletedIndex = 2
    /\ Delta # 0
    /\ Len(before) = 3
    /\ returned[3] # before[3]

\* the call met a text it could not parse, in the completed entry or, with
\* a delta other than 0, in an entry after it
InternalFailure ==
    /\ Called /\ Found
    /\ \/ ~CompletedParses
       \/ /\ Delta # 0
          /\ ~ParsesAfter(CompletedIndex)

\* C8: when a call fails internally, the schedule it returns and the
\* caller's schedule are the schedule as it was before the call.
FailureLeavesScheduleUnchanged ==
    InternalFailure => /\ returned = before
                       /\ current_schedule = before

\* C9: a call whose actual duration equals the scheduled duration of the
\* completed entry returns the schedule as it was and changes no start, end
\* or Status.
ZeroDeltaUnchanged ==
    (Called /\ Found /\ CompletedParses /\ Delta = 0) =>
        /\ returned = before
        /\ current_schedule = before

\* a call with delta 0 on a schedule in which an entry after the completed
\* one has a deadline
ZeroDeltaWitness ==
    /\ Called /\ Found /\ CompletedParses /\ Delta = 0
    /\ returned = before
    /\ \E k \in (CompletedIndex + 1)..Len(before) :
          /\ before[k].deadline # None
          /\ before[k].deadline[1].valid

\* C10: a call whose completed_task_id string-equals the task_id of no entry
\* returns the schedule as it was, whatever the actual duration, and
\* changes no entry.
MissingTaskNoOp ==
    (Called /\ ~Found) =>
        /\ returned = before
        /\ current_schedule = before

\* a call for an identifier that is in no entry, with an actual duration
\* that differs from the duration of every entry
MissingTaskWitness ==
    /\ Called /\ ~Found
    /\ Len(before) = 3
    /\ returned = before
    /\ \A k \in 1..Len(before) :
          /\ before[k].start_time.valid /\ before[k].end_time.valid
          /\ args.actual_duration * TicksPerMinute
                # before[k].end_time.t - before[k].start_time.t

\* the loop of the call reached entry k and wrote its new start and end
Shifted(k) ==
    /\ Found /\ CompletedParses /\ Delta # 0
    /\ k > CompletedIndex
    /\ \A j \in (CompletedIndex + 1)..k :
          before[j].start_time.valid /\ before[j].end_time.valid
    /\ \A j \in (CompletedIndex + 1)..(k - 1) :
          before[j].deadline # None => before[j].deadline[1].valid

\* entry k has a deadline that parses
CarriesDeadline(k) ==
    /\ before[k].deadline # None
    /\ before[k].deadline[1].valid

\* end of entry k after the shift, and what is left until its deadline
NewEnd(k) == before[k].end_time.t + Delta * TicksPerMinute
Buffer(k) == before[k].deadline[1].t - NewEnd(k)

\* C13: every entry a call shifts that carries a deadline gets the tight
\* Status exactly when its new end is after the deadline or less than 24
\* hours before it, and the on-track Status otherwise (exactly 24 hours is
\* on track); the Status of every other entry is as it was before the call.
DeadlineRiskAnnotation ==
    Called =>
        /\ Len(returned) = Len(before)
        /\ \A k \in 1..Len(before) :
              IF Shifted(k) /\ CarriesDeadline(k)
              THEN returned[k].Status =
                      IF NewEnd(k) > before[k].deadline[1].t
                            \/ Buffer(k) < 24 * 60 * TicksPerMinute
                      THEN "Tight deadline" ELSE "On track"
              ELSE returned[k].Status = before[k].Status

\* a call shifted an entry to end exactly 24 hours before its deadline and
\* marked it on track
DeadlineRiskAnnotationWitness ==
    /\ Called
    /\ \E k \in 1..Len(before) :
          /\ Shifted(k) /\ CarriesDeadline(k)
          /\ Buffer(k) = 24 * 60 * TicksPerMinute
          /\ returned[k].Status = "On track"


\* both calls have returned
BothDone == \A w \in Workers : worker[w].pc = "done"

\* scheduled duration of entry k of the schedule the calls started on
DurationBefore(k) ==
    (before[k].end_time.t - before[k].start_time.t) \div TicksPerMinute

\* the difference a call has to apply: actual minus scheduled duration of
\* the entry it completes (shifting an entry leaves its duration as it was)
DueDelta(w) ==
    worker[w].actual_duration - DurationBefore(worker[w].completed_index)

\* minutes entry k has to move by: the differences of the calls that
\* completed an entry before it
DueShift(k) ==
    (IF worker[1].completed_index < k THEN DueDelta(1) ELSE 0)
    + (IF worker[2].completed_index < k THEN DueDelta(2) ELSE 0)

\* a call took its difference from an entry of which one of start and end
\* had been moved and the other not
HalfUpdatedRead == \E w \in Workers : worker[w].time_diff # DueDelta(w)

\* an entry did not end shifted by the sum of the differences of the calls
\* that completed an entry before it
LostShift ==
    \E k \in 1..Len(before) :
        \/ current_schedule[k].start_time.t
              # before[k].start_time.t + DueShift(k) * TicksPerMinute
        \/ current_schedule[k].end_time.t
              # before[k].end_time.t + DueShift(k) * TicksPerMinute

\* C18: two calls on the same schedule leave an entry shifted by other than
\* the sum of the differences due, or take a difference from a half-updated
\* entry, only if one of them started while the other was running: with
\* one call at a time neither happens.  (That both do happen when the
\* steps of the calls interleave is the state UnserializedRaceWitness
\* describes.)
SerializedRescheduling ==
    (BothDone /\ (LostShift \/ HalfUpdatedRead)) => overlapped

\* two calls interleaved: one took its difference from an entry the other
\* had half-updated, and the entry after both completed entries ended
\* shifted by less than the sum of the two differences applied
UnserializedRaceWitness ==
    /\ BothDone /\ overlapped
    /\ worker[1].completed_index # worker[2].completed_index
    /\ HalfUpdatedRead
    /\ LostShift
    /\ \A w \in Workers : worker[w].time_diff > 0
    /\ current_schedule[3].end_time.t
          < before[3].end_time.t
              + (worker[1].time_diff + worker[2].time_diff) * TicksPerMinute


\* every 'start_time', 'end_time' and 'deadline' of the list parses
AllParse(schedule) ==
    \A i \in 1..Len(schedule) :
        /\ Parses(schedule[i].start_time)
        /\ Parses(schedule[i].end_time)
        /\ schedule[i].deadline # None => Parses(schedule[i].deadline[1])

\* C28: on a list whose texts all parse, a second call with the identifier
\* and the actual duration of the call before it changes nothing further:
\* the list after the second call is the list it was handed.
RepeatedCompletionIdempotent ==
    \A k \in 2..Len(history) :
        (/\ AllParse(history[k-1].before)
         /\ history[k].completed_task_id = history[k-1].completed_task_id
         /\ history[k].actual_duration = history[k-1].actual_duration) =>
            (IF k = Len(history) THEN current_schedule ELSE history[k+1].before)
                = history[k].before


\* the position in the list of the entry a call completes, 0 when none
IndexOf(schedule, id) ==
    IF \E i \in 1..Len(schedule) : schedule[i].task_id.s = id.s
    THEN CHOOSE i \in 1..Len(schedule) :
            /\ schedule[i].task_id.s = id.s
            /\ \A j \in 1..(i - 1) : schedule[j].task_id.s # id.s
    ELSE 0

\* actual duration minus the duration recorded in the entry, in minutes
DeltaOf(schedule, id, actual_duration) ==
    actual_duration
        - (schedule[IndexOf(schedule, id)].end_time.t
             - schedule[IndexOf(schedule, id)].start_time.t) \div TicksPerMinute

\* the list after call k of the history
After(k) == IF k = Len(history) THEN current_schedule ELSE history[k + 1].before

\* calls k and k + 1 completed two different entries of the list
TwoCompleted(k) ==
    /\ k + 1 <= Len(history)
    /\ IndexOf(history[k].before, history[k].completed_task_id) # 0
    /\ IndexOf(history[k].before, history[k + 1].completed_task_id) # 0
    /\ IndexOf(history[k].before, history[k].completed_task_id)
          # IndexOf(history[k].before, history[k + 1].completed_task_id)

\* C29: two serialized calls that complete two different entries of a list
\* leave the list that the same two calls leave in the other order, and
\* when the texts of the list parse every entry after both completed
\* entries is moved by the sum of the two differences.
SerializedCallsCommute ==
    \A k \in 1..Len(history) :
        TwoCompleted(k) =>
            LET first == history[k]
                second == history[k + 1]
                a == IndexOf(first.before, first.completed_task_id)
                b == IndexOf(first.before, second.completed_task_id)
                sum == DeltaOf(first.before, first.completed_task_id,
                               first.actual_duration)
                         + DeltaOf(first.before, second.completed_task_id,
                                   second.actual_duration)
            IN /\ After(k + 1) =
                     UpdateResult(
                         UpdateResult(first.before, second.completed_task_id,
                                      second.actual_duration),
                         first.completed_task_id, first.actual_duration)
               /\ AllParse(first.before) =>
                     \A j \in 1..Len(first.before) :
                         (j > a /\ j > b) =>
                             MovedBy(first.before[j], After(k + 1)[j], sum)

\* the first and the second entry of three were completed, the second
\* first, each with a duration other than the recorded one, and the third
\* entry, which has a deadline, was moved
SerializedCallsCommuteWitness ==
    /\ Len(history) = 2
    /\ TwoCompleted(1)
    /\ AllParse(history[1].before)
    /\ IndexOf(history[1].before, history[1].completed_task_id) = 2
    /\ IndexOf(history[1].before, history[2].completed_task_id) = 1
    /\ DeltaOf(history[1].before, history[1].completed_task_id,
               history[1].actual_duration) > 0
    /\ DeltaOf(history[1].before, history[2].completed_task_id,
               history[2].actual_duration) < 0
    /\ history[1].before[3].deadline # None
    /\ current_schedule[3].Status # history[1].before[3].Status
    /\ current_schedule[3].start_time # history[1].before[3].start_time


\* end minus start of an entry, in ticks
Length(entry) == entry.end_time.t - entry.start_time.t

\* C30: a call on a list whose texts all parse leaves the duration of every
\* entry as it was and, for the entries after the completed one, leaves
\* every difference between a start and an end of two of them as it was;
\* after any sequence of such calls every entry has the duration it had in
\* the first list.
DurationsAndGapsPreserved ==
    /\ \A k \in 1..Len(history) :
          AllParse(history[k].before) =>
              LET old == history[k].before
                  new == After(k)
                  c == IndexOf(old, history[k].completed_task_id)
              IN /\ Len(new) = Len(old)
                 /\ AllParse(new)
                 /\ \A j \in 1..Len(old) : Length(new[j]) = Length(old[j])
                 /\ c # 0 =>
                       \A i, j \in (c + 1)..Len(old) :
                           /\ new[j].start_time.t - new[i].end_time.t
                                 = old[j].start_time.t - old[i].end_time.t
                           /\ new[j].start_time.t - new[i].start_time.t
                                 = old[j].start_time.t - old[i].start_time.t
                           /\ new[j].end_time.t - new[i].end_time.t
                                 = old[j].end_time.t - old[i].end_time.t
    /\ (Len(history) > 0 /\ AllParse(history[1].before)) =>
          \A j \in 1..Len(current_schedule) :
              Length(current_schedule[j]) = Length(history[1].before[j])

\* two calls moved the entries: the first completed the first entry late
\* and moved the two after it, which do not touch and differ in duration,
\* the second completed the second entry early
DurationsAndGapsWitness ==
    /\ Len(history) = 2
    /\ AllParse(history[1].before)
    /\ IndexOf(history[1].before, history[1].completed_task_id) = 1
    /\ IndexOf(history[2].before, history[2].completed_task_id) = 2
    /\ history[2].before[2].start_time.t > history[1].before[2].start_time.t
    /\ history[2].before[3].start_time.t > history[1].before[3].start_time.t
    /\ current_schedule[3].start_time.t < history[2].before[3].start_time.t
    /\ current_schedule[3].start_time.t # current_schedule[2].end_time.t
    /\ Length(current_schedule[3]) # Length(current_schedule[2])


\* ===================================================== properties: time parser

\* the month k months after month m of year y
MonthPlus(y, m, k) ==
    [year |-> y + (m - 1 + k) \div 12, month |-> ((m - 1 + k) % 12) + 1]

\* 23:59:59 of the last day of a month
LastInstant(ym) ==
    datetime(ym.year, ym.month, days_in_month(ym.year, ym.month), 23, 59, 59)

\* the latest extract_deadline was handed a text in which the 'next month'
\* phrase is found and no phrase the code tests before it
NextMonthPhrase ==
    /\ ~parser_text.empty
    /\ "next_month" \in parser_text.matches
    /\ parser_text.matches \subseteq
          {"next_month", "days_from_now", "weeks_from_now", "months_from_now"}

\* C22 as stated: the 'next month' phrase gives the last instant of the
\* month after next, two months after the current one.
NextMonthIsMonthAfterNext ==
    NextMonthPhrase =>
        parser_deadline =
            Some(LastInstant(MonthPlus(parser_now.year, parser_now.month, 2)))

\* C22: the 'next month' phrase gives 23:59:59 of the last day of the month
\* that follows the current one, for every current month, of the next year
\* when the current month is December.
NextMonthIsEndOfNextMonth ==
    NextMonthPhrase =>
        /\ parser_deadline =
              Some(LastInstant(MonthPlus(parser_now.year, parser_now.month, 1)))
        /\ parser_deadline[1].year =
              IF parser_now.month = 12 THEN parser_now.year + 1 ELSE parser_now.year
        /\ parser_deadline[1].month =
              IF parser_now.month = 12 THEN 1 ELSE parser_now.month + 1

\* 'next month' was read in a December and gave the end of January
NextMonthWitness ==
    /\ NextMonthPhrase
    /\ parser_now.month = 12
    /\ parser_deadline = Some(datetime(parser_now.year + 1, 1, 31, 23, 59, 59))

\* C23: 'in N months' gives 23:59:59 of the day of the month of now, or of
\* the last day of the month when it has no such day, in the month
\* ((m - 1 + N) mod 12) + 1 of the year y + floor((m - 1 + N) / 12); 'end of
\* month' gives the last instant of the current month, in December too.
MonthArithmetic ==
    /\ (~parser_text.empty /\ parser_text.matches = {"months_from_now"}) =>
          LET ym == MonthPlus(parser_now.year, parser_now.month, parser_text.n)
              day == IF parser_now.day <= days_in_month(ym.year, ym.month)
                     THEN parser_now.day
                     ELSE days_in_month(ym.year, ym.month)
          IN parser_deadline = Some(datetime(ym.year, ym.month, day, 23, 59, 59))
    /\ (~parser_text.empty /\ parser_text.matches = {"end_of_month"}) =>
          parser_deadline =
              Some(LastInstant([year |-> parser_now.year, month |-> parser_now.month]))

\* 'in 14 months' was read on 31 December 2098 or 'in 2 months' on
\* 31 December 2099, and the day was clamped to 28 February of a century
\* year that is not a leap year
MonthArithmeticWitness ==
    /\ ~parser_text.empty
    /\ parser_text.matches = {"months_from_now"}
    /\ parser_now.month = 12 /\ parser_now.day = 31
    /\ parser_text.n > 0
    /\ parser_deadline = Some(datetime(2100, 2, 28, 23, 59, 59))

\* the strings of the list in which extract_deadline finds a deadline
Yielding ==
    {i \in 1..Len(parser_constraints) :
        extract_deadline(parser_constraints[i], parser_now) # None}

\* C24: the project deadline extract_global_constraints returns is the
\* deadline of the last string of the list that yields one, and none when
\* no string yields one; empty strings and strings without a deadline
\* neither set nor clear it.
LastDeadlineWins ==
    /\ Yielding = {} => parser_global.project_deadline = None
    /\ Yielding # {} =>
          \E i \in Yielding :
              /\ \A j \in Yielding : j <= i
              /\ parser_global.project_deadline
                    = extract_deadline(parser_constraints[i], parser_now)
    /\ \A i \in Yielding : ~parser_constraints[i].empty

\* three strings were read: two with different deadlines, then one without
\* a deadline, and the second deadline was returned
LastDeadlineWinsWitness ==
    /\ Len(parser_constraints) = 3
    /\ Yielding = {1, 2}
    /\ ~parser_constraints[3].empty
    /\ extract_deadline(parser_constraints[1], parser_now)
          # extract_deadline(parser_constraints[2], parser_now)
    /\ parser_global.project_deadline
          = extract_deadline(parser_constraints[2], parser_now)


====
